---- MODULE Spec2Model ----
(***************************************************************************)
(* Model of src/dart_report.py: the DART registry cache (get_corp_codes),  *)
(* the per-company report download (download_annual_reports) and the       *)
(* sequential driver (main).                                               *)
(*                                                                         *)
(* Text is a sequence of one-character strings, so that zero padding,      *)
(* number parsing and number printing are computed character by character. *)
(* The pandas operations are modelled with the semantics of the pandas 2.x *)
(* line the script was written against (astype(str) prints a missing       *)
(* value as the text "nan"; read_xml and read_csv infer column types       *)
(* unless a dtype is given).                                               *)
(***************************************************************************)
EXTENDS Integers, Sequences, FiniteSets

\* ------------------------------------------------------------- bounds
\* Runs of main() in one behaviour.
MaxRuns == 2
\* Longest listing the listing endpoint returns.
MaxFilings == 4
\* Rows of the bulk registry dataset (CORPCODE.xml) to choose from.
NumRows == 4

\* ---------------------------------------------------- program constants
\* download_annual_reports(..., years=3), the only value main() passes.
Years == 3
\* df['corp_code'].astype(str).str.zfill(8)
CorpCodeWidth == 8
\* The listing window runs from January 1 of (current_year - years) to
\* today: the calendar years a filing date can fall in.
NumYears == Years + 1

\* ------------------------------------------------------------- text
Digits == <<"0", "1", "2", "3", "4", "5", "6", "7", "8", "9">>

IsDigit(ch) == \E d \in 1..10 : Digits[d] = ch

DigitVal(ch) == (CHOOSE d \in 1..10 : Digits[d] = ch) - 1

IsDigitText(s) == Len(s) > 0 /\ \A p \in 1..Len(s) : IsDigit(s[p])

\* int("005930") = 5930
RECURSIVE ParseInt(_)
ParseInt(s) ==
    IF s = <<>> THEN 0
    ELSE 10 * ParseInt(SubSeq(s, 1, Len(s) - 1)) + DigitVal(s[Len(s)])

\* str(5930) = "5930"
RECURSIVE IntToText(_)
IntToText(n) ==
    IF n < 10 THEN <<Digits[n + 1]>>
    ELSE IntToText(n \div 10) \o <<Digits[(n % 10) + 1]>>

\* ------------------------------------------------------ DataFrame cells
\* A cell is text (python str), an int64, a float64 of integral value, or
\* the missing value NaN.
StrCell(s) == [k |-> "str", s |-> s, n |-> 0]
IntCell(n) == [k |-> "int", s |-> <<>>, n |-> n]
FloatCell(n) == [k |-> "float", s |-> <<>>, n |-> n]
NaN == [k |-> "nan", s |-> <<>>, n |-> 0]

isnull(cell) == cell = NaN

\* What get_corp_codes returns: a DataFrame of rows, or None.
Frame(rows) == [frame |-> TRUE, rows |-> rows]
None == [frame |-> FALSE, rows |-> <<>>]

\* corp_code.csv: absent, or its data lines.
CsvFile(lines) == [exists |-> TRUE, lines |-> lines]
NoFile == [exists |-> FALSE, lines |-> <<>>]

\* A path of dart_reports/ holds the receipt number of the document saved
\* there, or nothing.
Absent == 0

\* Fields the pandas text parser reads as missing (its default na_values;
\* the ones over the alphabet of this model).
NAValues == {<<>>, <<"n", "a", "n">>, <<"N", "a", "N">>, <<"N", "A">>}

\* Type inference of the pandas text parser over one column of text
\* fields: a field in NAValues is missing; a column whose present fields
\* are all numerals becomes int64, or float64 when a field is missing; any
\* other column keeps its text.
InferColumn(texts) ==
    LET present == {p \in 1..Len(texts) : texts[p] \notin NAValues}
        numeric == \A p \in present : IsDigitText(texts[p])
        missing == present # 1..Len(texts)
    IN  [p \in 1..Len(texts) |->
            IF texts[p] \in NAValues THEN NaN
            ELSE IF ~numeric THEN StrCell(texts[p])
            ELSE IF missing THEN FloatCell(ParseInt(texts[p]))
            ELSE IntCell(ParseInt(texts[p]))]

\* Series.astype(str): str() of every element, the missing value included.
astype_str(cell) ==
    CASE cell.k = "str" -> cell
      [] cell.k = "int" -> StrCell(IntToText(cell.n))
      [] cell.k = "float" -> StrCell(IntToText(cell.n) \o <<".", "0">>)
      [] OTHER -> StrCell(<<"n", "a", "n">>)

\* str.zfill(width): pad with zeros on the left up to width.
RECURSIVE zfill(_, _)
zfill(s, width) == IF Len(s) >= width THEN s ELSE zfill(<<"0">> \o s, width)

\* ------------------------------------------------------- the registry
\* TOP_10_COMPANIES: company name -> ticker (the first two of the ten
\* entries; the driver treats every entry alike).
TOP_10_COMPANIES ==
    << [corp_name |-> "SamsungElectronics",
        stock_code |-> <<"0", "0", "5", "9", "3", "0">>],
       [corp_name |-> "SKhynix",
        stock_code |-> <<"0", "0", "0", "6", "6", "0">>] >>

Companies == 1..Len(TOP_10_COMPANIES)

\* The <list> elements CORPCODE.xml can hold: corp_code is always an
\* 8-digit numeral, stock_code is blank for an entity that is not listed,
\* and some tickers hold a letter.
XmlRow(i) ==
    CASE i = 1 -> [corp_name |-> <<"S", "E", "C">>,
                   corp_code |-> <<"0", "0", "1", "2", "6", "3", "8", "0">>,
                   stock_code |-> <<"0", "0", "5", "9", "3", "0">>]
      [] i = 2 -> [corp_name |-> <<"S", "K", "H">>,
                   corp_code |-> <<"0", "0", "1", "6", "4", "7", "7", "9">>,
                   stock_code |-> <<"0", "0", "0", "6", "6", "0">>]
      [] i = 3 -> [corp_name |-> <<"U", "N", "L">>,
                   corp_code |-> <<"0", "0", "4", "3", "4", "0", "0", "3">>,
                   stock_code |-> <<>>]
      [] i = 4 -> [corp_name |-> <<"P", "R", "F">>,
                   corp_code |-> <<"1", "0", "1", "0", "2", "0", "3", "0">>,
                   stock_code |-> <<"0", "0", "1", "0", "4", "K">>]
      [] OTHER -> [corp_name |-> <<"L", "G", "E">>,
                   corp_code |-> <<"0", "1", "5", "1", "5", "3", "2", "3">>,
                   stock_code |-> <<"3", "7", "3", "2", "2", "0">>]

\* A dataset is a non-empty choice of rows, in document order.
RECURSIVE RowsOf(_, _)
RowsOf(chosen, i) ==
    IF i > NumRows THEN <<>>
    ELSE (IF i \in chosen THEN <<XmlRow(i)>> ELSE <<>>) \o RowsOf(chosen, i + 1)

Datasets == {RowsOf(chosen, 1) : chosen \in (SUBSET (1..NumRows)) \ {{}}}

FullDataset == RowsOf(1..NumRows, 1)

\* pd.read_xml(xml_file): one row per element, each column's type
\* inferred (modify_date, which line 58 drops again, is left out).
read_xml(xml) ==
    LET names == InferColumn([p \in 1..Len(xml) |-> xml[p].corp_name])
        codes == InferColumn([p \in 1..Len(xml) |-> xml[p].corp_code])
        stocks == InferColumn([p \in 1..Len(xml) |-> xml[p].stock_code])
    IN  [p \in 1..Len(xml) |->
            [corp_name |-> names[p], corp_code |-> codes[p],
             stock_code |-> stocks[p]]]

\* (mutant) the padding forgotten: the printed number as it is.
MutPadCorpCode(cell) == astype_str(cell)

\* df['corp_code'] = df['corp_code'].astype(str).str.zfill(8)
PadCorpCode(cell) == StrCell(zfill(astype_str(cell).s, CorpCodeWidth))

\* df['stock_code'] = df['stock_code'].astype(str)
StockCodeText(cell) == astype_str(cell)

\* The rows of df at the positions in idx, in order (boolean indexing).
RECURSIVE RowsAt(_, _, _)
RowsAt(df, idx, p) ==
    IF p > Len(df) THEN <<>>
    ELSE (IF p \in idx THEN <<df[p]>> ELSE <<>>) \o RowsAt(df, idx, p + 1)

\* df.dropna(subset=['stock_code'])
dropna_stock_code(df) ==
    RowsAt(df, {p \in 1..Len(df) : ~isnull(df[p].stock_code)}, 1)

\* Lines 52-58: the table get_corp_codes builds from the parsed dataset.
BuildTable(xml) ==
    LET df == read_xml(xml)
        typed == [p \in 1..Len(df) |->
                     [corp_name |-> df[p].corp_name,
                      corp_code |-> PadCorpCode(df[p].corp_code),
                      stock_code |-> StockCodeText(df[p].stock_code)]]
    IN  dropna_stock_code(typed)

\* The text to_csv writes for a cell (a missing value is an empty field).
CellText(cell) ==
    CASE cell.k = "str" -> cell.s
      [] cell.k = "int" -> IntToText(cell.n)
      [] cell.k = "float" -> IntToText(cell.n) \o <<".", "0">>
      [] OTHER -> <<>>

\* df.to_csv(csv_path, index=False): the file's data lines.
to_csv(df) ==
    [p \in 1..Len(df) |->
        [corp_name |-> CellText(df[p].corp_name),
         corp_code |-> CellText(df[p].corp_code),
         stock_code |-> CellText(df[p].stock_code)]]

\* A column read with dtype str: text, except the fields read as missing.
ReadTextField(field) == IF field \in NAValues THEN NaN ELSE StrCell(field)

\* pd.read_csv(csv_path, dtype={'stock_code': str, 'corp_code': str})
read_csv(file) ==
    LET names == InferColumn([p \in 1..Len(file) |-> file[p].corp_name])
    IN  [p \in 1..Len(file) |->
            [corp_name |-> names[p],
             corp_code |-> ReadTextField(file[p].corp_code),
             stock_code |-> ReadTextField(file[p].stock_code)]]

\* pd.merge(top10_df, corp_codes_df, on='stock_code', how='left',
\* suffixes=('_top10', '')): every watch-list entry, in order, once per
\* registry row with its ticker, or once with the registry columns missing.
RECURSIVE merge_left(_, _)
merge_left(top10, df) ==
    IF top10 = <<>> THEN <<>>
    ELSE LET w == top10[1]
             hits == {p \in 1..Len(df) : df[p].stock_code = StrCell(w.stock_code)}
             joined == [p \in 1..Len(df) |->
                           [corp_name_top10 |-> w.corp_name,
                            stock_code |-> StrCell(w.stock_code),
                            corp_name |-> df[p].corp_name,
                            corp_code |-> df[p].corp_code]]
             unmatched == [corp_name_top10 |-> w.corp_name,
                           stock_code |-> StrCell(w.stock_code),
                           corp_name |-> NaN, corp_code |-> NaN]
         IN  (IF hits = {} THEN <<unmatched>> ELSE RowsAt(joined, hits, 1))
             \o merge_left(Tail(top10), df)

\* target_companies[target_companies['corp_code'].isnull()]
MissingRows(target) ==
    RowsAt(target, {p \in 1..Len(target) : isnull(target[p].corp_code)}, 1)

\* (mutant) the unresolved rows kept.
MutDropnaCorpCode(target) == target

\* target_companies.dropna(subset=['corp_code'])
dropna_corp_code(target) ==
    RowsAt(target, {p \in 1..Len(target) : ~isnull(target[p].corp_code)}, 1)

\* ------------------------------------------------------- the reports
\* The disclosure server: the bulk dataset it serves and, per watch-list
\* company, the filing years of its listing in response order.  Filing p
\* of company c has receipt number 100*c + p and a filing date in year
\* listing[c][p]; two filings of one company may fall in the same year, and
\* the order of the years is arbitrary.  The script uses a filing year only
\* to form a file name, so years are labels and listings are taken up to
\* renaming: the labels first occur in the order 1, 2, 3, ...
FirstOccurrencesInOrder(years) ==
    \A p \in 1..Len(years) :
        years[p] = 1 \/ \E q \in 1..(p - 1) : years[q] = years[p] - 1

Listings ==
    {years \in UNION {[1..n -> 1..NumYears] : n \in 0..MaxFilings} :
        FirstOccurrencesInOrder(years)}

\* Every dataset with one-filing listings, and every listing of the first
\* company with the full dataset.
Envs ==
    {[xml |-> d, listing |-> <<l1, <<1>>>>] : d \in Datasets, l1 \in {<<>>, <<1>>}}
    \cup
    {[xml |-> FullDataset, listing |-> <<l1, <<1>>>>] : l1 \in Listings}

\* DART_API_KEY: empty as shipped, the placeholder, or a key the operator
\* has filled in.
ApiKeys == {"", "YOUR_DART_API_KEY_HERE", "key"}

\* data['list'] of the listing endpoint for a company of the server.
ListingResponse(years) ==
    [p \in 1..Len(years) |->
        [rcept_no |-> p, rcept_dt |-> <<years[p], p>>]]

\* file_year = rcept_dt[:4]
file_year(rcept_dt) == rcept_dt[1]

\* filepath = os.path.join(OUTPUT_DIR, f"[{company_name}]_[{file_year}...")
filepath(company_name, rcept_dt) == <<company_name, file_year(rcept_dt)>>

Files == {<<TOP_10_COMPANIES[c].corp_name, y>> : c \in Companies, y \in 1..NumYears}

\* (mutant) the existence test always failing.
MutPathExists(d, path) == FALSE

\* os.path.exists(filepath)
path_exists(d, path) == d[path] # Absent

\* (mutant) the cap reached one download early.
MutCapReached(count, years) == count >= years - 1

\* if download_count >= years: break
CapReached(count, years) == count >= years

\* (mutant) a skipped filing counted toward the cap.
MutCountAfterSkip(count) == count + 1

\* The counter after a filing whose file exists: `continue` leaves it.
CountAfterSkip(count) == count

\* except requests.exceptions.RequestException / except Exception, in
\* get_corp_codes and in download_annual_reports.
get_corp_codes_catches(exc) == exc \in {"RequestException", "Exception"}

\* (mutant) only the transport errors caught.
MutDownloadCatches(exc) == exc = "RequestException"

download_catches(exc) == exc \in {"RequestException", "Exception"}

\* (mutant) the None test dropped.
MutHasTable(df) == TRUE

\* if corp_codes_df is not None:
HasTable(df) == df # None

\* if DART_API_KEY == "YOUR_DART_API_KEY_HERE" or not DART_API_KEY: return
KeyMissing(key) == key = "YOUR_DART_API_KEY_HERE" \/ key = ""

\* The watch-list company a registry code belongs to on the server (0 when
\* the server knows no such code).
CompanyOfCode(cell) ==
    IF \E c \in Companies : cell = StrCell(XmlRow(c).corp_code)
    THEN CHOOSE c \in Companies : cell = StrCell(XmlRow(c).corp_code)
    ELSE 0

CompanyNamed(name) == CHOOSE c \in Companies : TOP_10_COMPANIES[c].corp_name = name

\* ------------------------------------------------------------- state
VARIABLES
    env,             \* the server's data (fixed during a behaviour)
    csv,             \* corp_code.csv: NoFile or its data lines
    disk,            \* dart_reports/: path -> Absent or the receipt saved
    pc,              \* position of the script
    run,             \* runs of main() started so far
    corp_codes_df,   \* main: the table get_corp_codes returned, or None
    missing,         \* main: the rows reported as unresolved
    to_fetch,        \* main: target_companies.dropna(subset=['corp_code'])
    i,               \* main: position in to_fetch
    data,            \* download_annual_reports: data['list']
    k,               \* download_annual_reports: position in data['list']
    download_count,  \* download_annual_reports: download_count
    regPath,         \* history: how get_corp_codes ended in this run
    bulkRequested,   \* history: this run requested corpCode.xml
    prevRegPath,     \* history: regPath of the run before
    builtDf,         \* history: the table the last cache-miss build returned
    invoked,         \* history: companies download_annual_reports ran for
    outcome,         \* history: per company, how its call ended in this run
    written,         \* history: <<path, receipt>> written by the current call
    runFiles,        \* history: paths written in this run
    writeCount,      \* history: path -> number of times it was written
    clean,           \* history: per company, its last call fetched all
    startClean,      \* history: clean[c] when the current call began
    startFresh       \* history: no file of c existed when the call began

vars == <<env, csv, disk, pc, run, corp_codes_df, missing, to_fetch, i, data,
          k, download_count, regPath, bulkRequested, prevRegPath, builtDf,
          invoked, outcome, written, runFiles, writeCount, clean, startClean,
          startFresh>>

mainLocals == <<corp_codes_df, missing, to_fetch, i>>
callLocals == <<data, k, download_count>>
regHistory == <<regPath, bulkRequested, prevRegPath, builtDf>>
callHistory == <<invoked, outcome, written, runFiles, writeCount, clean,
                 startClean, startFresh>>

Init ==
    /\ env \in Envs
    /\ csv = NoFile
    /\ disk = [f \in Files |-> Absent]
    /\ pc = "idle"
    /\ run = 0
    /\ corp_codes_df = None
    /\ missing = <<>>
    /\ to_fetch = <<>>
    /\ i = 0
    /\ data = <<>>
    /\ k = 0
    /\ download_count = 0
    /\ regPath = "none"
    /\ bulkRequested = FALSE
    /\ prevRegPath = "none"
    /\ builtDf = None
    /\ invoked = <<>>
    /\ outcome = [c \in Companies |-> "none"]
    /\ written = <<>>
    /\ runFiles = {}
    /\ writeCount = [f \in Files |-> 0]
    /\ clean = [c \in Companies |-> FALSE]
    /\ startClean = FALSE
    /\ startFresh = FALSE

\* ------------------------------------------------------------- main()
\* Lines 135-139: the key guard and the output directory.
main_start(key) ==
    /\ pc \in {"idle", "done"}
    /\ run < MaxRuns
    /\ run' = run + 1
    /\ pc' = IF KeyMissing(key) THEN "done" ELSE "get_corp_codes"
    /\ corp_codes_df' = None
    /\ missing' = <<>>
    /\ to_fetch' = <<>>
    /\ i' = 0
    /\ regPath' = "none"
    /\ bulkRequested' = FALSE
    /\ prevRegPath' = regPath
    /\ invoked' = <<>>
    /\ outcome' = [c \in Companies |-> "none"]
    /\ written' = <<>>
    /\ runFiles' = {}
    /\ UNCHANGED <<env, csv, disk, callLocals, builtDf, writeCount, clean,
                   startClean, startFresh>>

\* Lines 36-41: the cache file exists.
get_corp_codes_cached ==
    /\ pc = "get_corp_codes"
    /\ csv # NoFile
    /\ corp_codes_df' = Frame(read_csv(csv.lines))
    /\ regPath' = "hit"
    /\ pc' = "resolve"
    /\ UNCHANGED <<env, csv, disk, run, missing, to_fetch, i, callLocals,
                   bulkRequested, prevRegPath, builtDf, callHistory>>

\* Lines 43-69: the cache file is absent; the bulk request succeeds, fails
\* in transport (RequestException), or returns a malformed archive or
\* document (BadZipFile, KeyError, XMLSyntaxError: Exception).  Every
\* failure is raised before line 60 writes the file.
get_corp_codes_build(result) ==
    /\ pc = "get_corp_codes"
    /\ csv = NoFile
    /\ bulkRequested' = TRUE
    /\ IF result = "ok"
       THEN LET df == Frame(BuildTable(env.xml))
            IN  /\ csv' = CsvFile(to_csv(df.rows))
                /\ corp_codes_df' = df
                /\ builtDf' = df
                /\ regPath' = "built"
                /\ pc' = "resolve"
       ELSE /\ csv' = csv
            /\ corp_codes_df' = None
            /\ builtDf' = builtDf
            /\ regPath' = result
            /\ pc' = IF get_corp_codes_catches(result) THEN "resolve" ELSE "crashed"
    /\ UNCHANGED <<env, disk, run, missing, to_fetch, i, callLocals,
                   prevRegPath, callHistory>>

\* Lines 143-151: without a table main is done; otherwise the join, the
\* report of the unresolved entries and the rows to fetch.
main_resolve ==
    /\ pc = "resolve"
    /\ IF ~HasTable(corp_codes_df)
       THEN /\ pc' = "done"
            /\ UNCHANGED <<missing, to_fetch, i>>
       ELSE IF corp_codes_df = None
       THEN /\ pc' = "crashed"     \* pd.merge raises on None
            /\ UNCHANGED <<missing, to_fetch, i>>
       ELSE LET target_companies == merge_left(TOP_10_COMPANIES, corp_codes_df.rows)
            IN  /\ missing' = MissingRows(target_companies)
                /\ to_fetch' = dropna_corp_code(target_companies)
                /\ i' = 1
                /\ pc' = "loop"
    /\ UNCHANGED <<env, csv, disk, run, corp_codes_df, callLocals, regHistory,
                   callHistory>>

\* Line 160: the loop over the resolved companies is exhausted.
main_finish ==
    /\ pc = "loop"
    /\ i > Len(to_fetch)
    /\ pc' = "done"
    /\ UNCHANGED <<env, csv, disk, run, mainLocals, callLocals, regHistory,
                   callHistory>>

\* ------------------------------------------ download_annual_reports()
\* The row main passes to the call in progress, and its watch-list index.
company == to_fetch[i]
cur == CompanyNamed(company.corp_name_top10)

\* The call returns to main's loop (normally, or through an except
\* clause); an exception no clause catches reaches main, which has none.
EndCall(how, exc) ==
    /\ outcome' = [outcome EXCEPT ![cur] = how]
    /\ clean' = [clean EXCEPT ![cur] = (how \in {"ok", "empty"})]
    /\ IF exc = "none" \/ download_catches(exc)
       THEN pc' = "loop" /\ i' = i + 1
       ELSE pc' = "crashed" /\ i' = i

\* Lines 76-99: main calls download_annual_reports for the next resolved
\* company and the listing request is answered: a transport error, a body
\* that is not the expected JSON, a non-success status (always, for a
\* registry code the server does not know), or status '000' with the list.
download_request_listing(result) ==
    /\ pc = "loop"
    /\ i <= Len(to_fetch)
    /\ invoked' = Append(invoked, company.corp_name_top10)
    /\ written' = <<>>
    /\ startClean' = clean[cur]
    /\ startFresh' = \A f \in Files : f[1] = company.corp_name_top10 => disk[f] = Absent
    /\ LET srv == CompanyOfCode(company.corp_code)
       IN  CASE result = "request_error" ->
                  /\ EndCall("request_error", "RequestException")
                  /\ UNCHANGED callLocals
             [] result = "bad_json" ->
                  /\ EndCall("error", "Exception")
                  /\ UNCHANGED callLocals
             [] result = "status_error" \/ (result = "ok" /\ srv = 0) ->
                  /\ EndCall("status_error", "none")
                  /\ UNCHANGED callLocals
             [] result = "ok" /\ srv # 0 /\ env.listing[srv] = <<>> ->
                  /\ EndCall("empty", "none")
                  /\ UNCHANGED callLocals
             [] OTHER ->
                  /\ data' = ListingResponse(env.listing[srv])
                  /\ k' = 1
                  /\ download_count' = 0
                  /\ outcome' = [outcome EXCEPT ![cur] = "running"]
                  /\ pc' = "dl_loop"
                  /\ UNCHANGED <<i, clean>>
    /\ UNCHANGED <<env, csv, disk, run, corp_codes_df, missing, to_fetch,
                   regHistory, runFiles, writeCount>>

\* Lines 100-102: the list is exhausted or the cap is reached.
download_done ==
    /\ pc = "dl_loop"
    /\ k > Len(data) \/ CapReached(download_count, Years)
    /\ EndCall("ok", "none")
    /\ UNCHANGED <<env, csv, disk, run, corp_codes_df, missing, to_fetch,
                   callLocals, regHistory, invoked, written, runFiles,
                   writeCount, startClean, startFresh>>

\* Lines 104-113: the filing's file exists: skip it.
download_skip ==
    /\ pc = "dl_loop"
    /\ k <= Len(data) /\ ~CapReached(download_count, Years)
    /\ path_exists(disk, filepath(company.corp_name_top10, data[k].rcept_dt))
    /\ k' = k + 1
    /\ download_count' = CountAfterSkip(download_count)
    /\ UNCHANGED <<env, csv, disk, pc, run, mainLocals, data, regHistory,
                   callHistory>>

\* Lines 115-125: the document is requested; it is saved and counted, or
\* the request fails (RequestException), or the file cannot be opened
\* (OSError: Exception).
download_fetch(result) ==
    /\ pc = "dl_loop"
    /\ k <= Len(data) /\ ~CapReached(download_count, Years)
    /\ LET path == filepath(company.corp_name_top10, data[k].rcept_dt)
           receipt == 100 * cur + data[k].rcept_no
       IN  /\ ~path_exists(disk, path)
           /\ CASE result = "ok" ->
                    /\ disk' = [disk EXCEPT ![path] = receipt]
                    /\ written' = Append(written, <<path, receipt>>)
                    /\ runFiles' = runFiles \cup {path}
                    /\ writeCount' = [writeCount EXCEPT ![path] = @ + 1]
                    /\ download_count' = download_count + 1
                    /\ k' = k + 1
                    /\ UNCHANGED <<pc, i, outcome, clean>>
                [] result = "request_error" ->
                    /\ EndCall("request_error", "RequestException")
                    /\ UNCHANGED <<disk, written, runFiles, writeCount,
                                   download_count, k>>
                [] OTHER ->
                    /\ EndCall("error", "Exception")
                    /\ UNCHANGED <<disk, written, runFiles, writeCount,
                                   download_count, k>>
    /\ UNCHANGED <<env, csv, run, corp_codes_df, missing, to_fetch, data,
                   regHistory, invoked, startClean, startFresh>>

\* ------------------------------------------------------ specification
Next ==
    \/ \E key \in ApiKeys : main_start(key)
    \/ get_corp_codes_cached
    \/ \E result \in {"ok", "RequestException", "Exception"} :
          get_corp_codes_build(result)
    \/ main_resolve
    \/ main_finish
    \/ \E result \in {"ok", "status_error", "request_error", "bad_json"} :
          download_request_listing(result)
    \/ download_done
    \/ download_skip
    \/ \E result \in {"ok", "request_error", "os_error"} : download_fetch(result)

Spec == Init /\ [][Next]_vars

\* ----------------------------------------------------------- claims
\* A call of download_annual_reports is in progress or has just returned:
\* the company it is for, the listing the server holds for it, and the
\* <<path, receipt>> of that listing's filing p.
InCall == pc = "dl_loop"
Returned == pc \in {"loop", "done"} /\ i > 1
callCompany ==
    CompanyNamed(to_fetch[IF InCall THEN i ELSE i - 1].corp_name_top10)
callListing == env.listing[callCompany]
FilingFile(c, p) ==
    <<filepath(TOP_10_COMPANIES[c].corp_name,
               ListingResponse(env.listing[c])[p].rcept_dt),
      100 * c + p>>
FilesOf(c) == {f \in Files : f[1] = TOP_10_COMPANIES[c].corp_name}
Failures == {"request_error", "status_error", "error"}
\* main has joined the watch-list with the table in this run.
Resolved == i >= 1
HasRow(w) ==
    \E p \in 1..Len(corp_codes_df.rows) :
        corp_codes_df.rows[p].stock_code = StrCell(w.stock_code)
Range(seq) == {seq[p] : p \in 1..Len(seq)}

\* C1: once a call for a company whose listing holds more than `years`
\* filings has completed with every fetch succeeding, the next call for it
\* (same listing, same directory) writes no file.
C1_RerunWritesNothing ==
    ((InCall \/ Returned) /\ startClean /\ Len(callListing) > Years)
        => written = <<>>

\* C2 (as claimed): a call that starts with no file of the company on disk,
\* has more than `years` filings listed and fetches every document writes
\* exactly the files of the first `years` filings, in response order.
C2_FirstRunWritesFirstYears ==
    (Returned /\ startFresh /\ outcome[callCompany] = "ok"
              /\ Len(callListing) > Years)
        => written = [p \in 1..Years |-> FilingFile(callCompany, p)]

\* The first `years` filings of the listing fall in pairwise distinct years.
DistinctFirstYears(years) ==
    \A p, q \in 1..Years : (p # q) => (years[p] # years[q])

\* C2 (amended): the same, for listings whose first `years` filings fall
\* in pairwise distinct years.
C2_FirstRunDistinctYears ==
    (Returned /\ startFresh /\ outcome[callCompany] = "ok"
              /\ Len(callListing) > Years
              /\ DistinctFirstYears(callListing))
        => written = [p \in 1..Years |-> FilingFile(callCompany, p)]

C2_Witness ==
    /\ Returned /\ startFresh /\ outcome[callCompany] = "ok"
    /\ Len(callListing) > Years
    /\ DistinctFirstYears(callListing)
    /\ Len(written) = Years

\* C3: a path that exists is never written again: its content and the
\* number of times it was written stay as they are, in every step.
C3_NeverOverwritten ==
    [][\A f \in Files :
          (disk[f] # Absent)
              => (disk'[f] = disk[f] /\ writeCount'[f] = writeCount[f])]_vars

\* A later filing of a year whose file holds an earlier filing was skipped.
C3_Witness ==
    /\ InCall
    /\ \E p \in 1..(k - 1) :
          /\ disk[FilingFile(cur, p)[1]] # Absent
          /\ disk[FilingFile(cur, p)[1]] # FilingFile(cur, p)[2]

\* C4: on a cache hit get_corp_codes requests nothing, leaves the file as
\* the build wrote it and returns the table the build returned.
C4_CacheHitReturnsBuiltTable ==
    regPath = "hit"
        => /\ ~bulkRequested
           /\ csv = CsvFile(to_csv(builtDf.rows))
           /\ corp_codes_df = builtDf

\* C5: a failing call never raises into main, writes nothing for a
\* non-success status, leaves the company's files alone for the rest of
\* the run, and main still calls every resolved company.
C5_FailureIsolation ==
    /\ [](pc # "crashed")
    /\ [](\A c \in Companies :
            (outcome[c] = "status_error") => (FilesOf(c) \cap runFiles = {}))
    /\ []((pc = "done" /\ Resolved) =>
            invoked = [p \in 1..Len(to_fetch) |-> to_fetch[p].corp_name_top10])
    /\ [][\A c \in Companies :
            (outcome[c] \in Failures /\ outcome'[c] = outcome[c])
                => (\A f \in FilesOf(c) :
                      disk'[f] = disk[f] /\ writeCount'[f] = writeCount[f])]_vars

\* The first company failed after saving a file and the second one was
\* still fetched.
C5_Witness ==
    /\ pc = "done"
    /\ outcome[1] \in {"request_error", "error"}
    /\ outcome[2] = "ok"
    /\ FilesOf(1) \cap runFiles # {}
    /\ FilesOf(2) \cap runFiles # {}

\* C6: the entries reported as unresolved are exactly those whose ticker
\* has no row in the table; download_annual_reports runs only for resolved
\* entries, and by the end of the run for each of them.
C6_Resolution ==
    Resolved =>
        /\ Range(missing) =
              {[corp_name_top10 |-> w.corp_name,
                stock_code |-> StrCell(w.stock_code),
                corp_name |-> NaN, corp_code |-> NaN] :
                  w \in {v \in Range(TOP_10_COMPANIES) : ~HasRow(v)}}
        /\ Range(invoked) \subseteq
              {w.corp_name : w \in {v \in Range(TOP_10_COMPANIES) : HasRow(v)}}
        /\ (pc = "done") =>
              Range(invoked) =
                 {w.corp_name : w \in {v \in Range(TOP_10_COMPANIES) : HasRow(v)}}

C6_Witness ==
    /\ pc = "done" /\ Resolved
    /\ Len(missing) = 1
    /\ Len(invoked) = 1

\* C7: a cache-miss build leaves no row of a blank stock_code in the table
\* it returns nor in the file it writes.
C7_BlankTickersDropped ==
    (regPath = "built") =>
        \A p \in 1..Len(env.xml) :
            (env.xml[p].stock_code = <<>>) =>
                /\ \A q \in 1..Len(corp_codes_df.rows) :
                      corp_codes_df.rows[q].corp_name # StrCell(env.xml[p].corp_name)
                /\ \A q \in 1..Len(csv.lines) :
                      csv.lines[q].corp_name # env.xml[p].corp_name

\* C8: in the table get_corp_codes returns, built or loaded, every
\* corp_code is the text of 8 digits the registry lists for that company.
C8_CorpCodeWidth ==
    corp_codes_df # None =>
        \A q \in 1..Len(corp_codes_df.rows) :
            LET code == corp_codes_df.rows[q].corp_code
            IN  /\ code.k = "str"
                /\ Len(code.s) = CorpCodeWidth
                /\ \E p \in 1..Len(env.xml) :
                      /\ corp_codes_df.rows[q].corp_name = StrCell(env.xml[p].corp_name)
                      /\ code.s = env.xml[p].corp_code

C8_Witness ==
    /\ regPath = "hit"
    /\ \E q \in 1..Len(corp_codes_df.rows) :
          corp_codes_df.rows[q].corp_code.s[1] = "0"

\* C9: when the build fails, get_corp_codes returns None without raising
\* and without creating the file, main calls no download and no report is
\* written; the run after a failed build requests the dataset again.
C9_BuildFailureCascade ==
    /\ (regPath \in {"RequestException", "Exception"}) =>
          /\ pc # "crashed"
          /\ corp_codes_df = None
          /\ csv = NoFile
          /\ invoked = <<>>
          /\ runFiles = {}
    /\ (prevRegPath \in {"RequestException", "Exception"} /\ regPath # "none") =>
          bulkRequested

C9_Witness ==
    /\ pc = "done"
    /\ prevRegPath \in {"RequestException", "Exception"}
    /\ regPath = "built"
    /\ runFiles # {}

\* C10: within a call the counter equals the number of files written so
\* far, and no call writes more than `years` files.
C10_DownloadCap ==
    /\ Len(written) <= Years
    /\ InCall => (download_count = Len(written))

\* A filing was skipped after a file had been written in this call.
C10_Witness ==
    /\ InCall
    /\ download_count >= 1
    /\ k - 1 > download_count

====
